---------------------------- MODULE Spec2Model ----------------------------
(***************************************************************************)
(* Multi-UAV path planning on a 3-D lattice graph.                         *)
(*                                                                         *)
(*   - the lattice builder   (scripts/Python/GraphBuilder.py create_graph, *)
(*                            sandbox/Lattice_Graph_With_TSP_Test1.py)     *)
(*   - the cost model        (path_cost)                                   *)
(*   - the single-agent plan (rrt_path_planning, shortest-path fallback,   *)
(*                            generate_initial_solution)                   *)
(*   - the optimizer         (get_neighbor, simulated_annealing)           *)
(*                                                                         *)
(* Floating-point distances are modelled in integer units: a position is a *)
(* triple of integers and slant_range is the integer square root of the    *)
(* sum of squares.  Temperatures are exact rationals <<num, den>>.         *)
(***************************************************************************)
EXTENDS Integers, Sequences, FiniteSets, TLC

VARIABLES
    n_lat, n_lon, n_alt,    \* grid dimensions (module-level globals)
    available,              \* node -> BOOLEAN ('available' node attribute)
    G,                      \* the DiGraph: <<u, v>> -> weight, for every edge
    built,                  \* number of (i, j, k) iterations of the edge loop done
    pc,                     \* which part of the program is running
    cost_in,                \* path_cost: the argument `paths`
    cost_out,               \* path_cost: what the call did (returned or raised)
    uav_routes,             \* the route requests: sequence of [origin, destination]
    route_idx,              \* generate_initial_solution: the route of the for loop (1-based)
    gen_paths,              \* generate_initial_solution: its list `paths`
    gen_via,                \* which branch appended each path: "rrt" or "fallback"
    rrt_ret,                \* what rrt_path_planning returned for the latest route
    tree,                   \* rrt_path_planning: the dict node -> parent, in insertion order
    iteration,              \* rrt_path_planning: iterations of its for loop done
    schedule,               \* simulated_annealing: initial_temp, cooling_rate, min_temp
    current_paths,          \* simulated_annealing: current solution
    current_cost,
    best_paths,             \* simulated_annealing: best solution so far
    best_cost,
    temperature,
    initial_cost,           \* the cost of the initial solution (line 421), kept
    sa_ret,                 \* what simulated_annealing returned
    solutions,              \* get_neighbor: the solution lists alive, by identity
    new_solution,           \* get_neighbor: which list `new_solution` names
    uav_index,              \* get_neighbor: the draws of the running call (1-based)
    start_idx,
    end_idx,
    retries,                \* get_neighbor: calls of itself made so far (line 398)
    nb_branch,              \* get_neighbor: the return statement taken
    nb_ret,                 \* get_neighbor: which list it returned
    ws_messages,            \* websocket_handler: the frames the client sends, in order
    ws_next,                \* websocket_handler: the frame `async for` yields next (1-based)
    ws_replies,             \* websocket_handler: the frames sent while handling each message
    ws_state                \* websocket_handler: "open", "closed", or the exception that ended it

graphVars == <<n_lat, n_lon, n_alt, available, G, built>>
costVars == <<cost_in, cost_out>>
planVars == <<uav_routes, route_idx, gen_paths, gen_via, rrt_ret, tree, iteration>>
saVars == <<schedule, current_paths, current_cost, best_paths, best_cost,
            temperature, initial_cost, sa_ret>>

nbVars == <<solutions, new_solution, uav_index, start_idx, end_idx, retries,
            nb_branch, nb_ret>>

wsVars == <<ws_messages, ws_next, ws_replies, ws_state>>

vars == <<n_lat, n_lon, n_alt, available, G, built, pc, cost_in, cost_out,
          uav_routes, route_idx, gen_paths, gen_via, rrt_ret, tree, iteration,
          schedule, current_paths, current_cost, best_paths, best_cost,
          temperature, initial_cost, sa_ret,
          solutions, new_solution, uav_index, start_idx, end_idx, retries,
          nb_branch, nb_ret, ws_messages, ws_next, ws_replies, ws_state>>

-----------------------------------------------------------------------------
(* Bounds of the model *)

\* Largest n_lat the builder is run with (n_lon = n_alt = 2 there).
BuilderMaxLat == 3
\* Largest number of unavailable nodes in a lattice handed to the builder.
BuilderMaxUnavailable == 3

\* Grid spacing per axis, in integer position units (np.linspace spacing).
LatStep == 3
LonStep == 4
AltStep == 12

-----------------------------------------------------------------------------
(* The lattice *)

NodesOf(nl, no, na) == (0 .. nl - 1) \X (0 .. no - 1) \X (0 .. na - 1)

Nodes == NodesOf(n_lat, n_lon, n_alt)

\* pos[(i, j, k)] = (lats[i], lons[j], alts[k])
pos(u) == <<u[1] * LatStep, u[2] * LonStep, u[3] * AltStep>>

Isqrt(n) == CHOOSE r \in 0 .. n : r * r <= n /\ n < (r + 1) * (r + 1)

slant_range_swapped_alt(p1, p2) ==
    LET dx == p2[1] - p1[1]
        dy == p2[2] - p1[2]
        dz == p2[3] - p1[3]
    IN  Isqrt(dx * dx + dy * dy + (IF dz > 0 THEN dz * dz ELSE 0))

slant_range(p1, p2) ==
    LET dx == p2[1] - p1[1]
        dy == p2[2] - p1[2]
        dz == p2[3] - p1[3]
    IN  Isqrt(dx * dx + dy * dy + dz * dz)

Offsets == {d \in {-1, 0, 1} \X {-1, 0, 1} \X {-1, 0, 1} : d # <<0, 0, 0>>}

InBounds(v) ==
    /\ 0 <= v[1] /\ v[1] < n_lat
    /\ 0 <= v[2] /\ v[2] < n_lon
    /\ 0 <= v[3] /\ v[3] < n_alt

\* The edges the loop body adds for one (i, j, k): none when the node is
\* unavailable, else one to every in-bounds available 26-neighbour.
EdgesFrom_no_target_check(avail, u) ==
    IF ~avail[u] THEN {}
    ELSE {<<u, <<u[1] + d[1], u[2] + d[2], u[3] + d[3]>>>> : d \in
            {d \in Offsets : InBounds(<<u[1] + d[1], u[2] + d[2], u[3] + d[3]>>)}}

EdgesFrom_forward_only(avail, u) ==
    IF ~avail[u] THEN {}
    ELSE {<<u, <<u[1] + d[1], u[2] + d[2], u[3] + d[3]>>>> : d \in
            {d \in Offsets :
                /\ d[1] >= 0
                /\ InBounds(<<u[1] + d[1], u[2] + d[2], u[3] + d[3]>>)
                /\ avail[<<u[1] + d[1], u[2] + d[2], u[3] + d[3]>>]}}

EdgesFrom(avail, u) ==
    IF ~avail[u] THEN {}
    ELSE {<<u, <<u[1] + d[1], u[2] + d[2], u[3] + d[3]>>>> : d \in
            {d \in Offsets :
                /\ InBounds(<<u[1] + d[1], u[2] + d[2], u[3] + d[3]>>)
                /\ avail[<<u[1] + d[1], u[2] + d[2], u[3] + d[3]>>]}}

\* G.add_edge(u, v, weight=dist) for every edge of `new`
AddEdges(g, new) ==
    [e \in (DOMAIN g) \cup new |->
        IF e \in new THEN slant_range(pos(e[1]), pos(e[2])) ELSE g[e]]

\* The (i, j, k) visited by iteration number p of the nested for loops.
NodeAt(p) == <<p \div (n_lon * n_alt), (p \div n_alt) % n_lon, p % n_alt>>

NumNodes == n_lat * n_lon * n_alt

EmptyGraph == [e \in {} |-> 0]

\* The graph once the edge loop has run over every node.
BuiltGraph(avail) == AddEdges(EmptyGraph, UNION {EdgesFrom(avail, u) : u \in Nodes})

has_edge(u, v) == <<u, v>> \in DOMAIN G

Availabilities(nodes, maxUnavailable) ==
    {a \in [nodes -> BOOLEAN] :
        Cardinality({u \in nodes : ~a[u]}) <= maxUnavailable}

\* Python's None
None == <<>>

\* No plan has been asked for.
PlanIdle ==
    /\ uav_routes = <<>>
    /\ route_idx = 0
    /\ gen_paths = <<>>
    /\ gen_via = <<>>
    /\ rrt_ret = None
    /\ tree = <<>>
    /\ iteration = 0

\* simulated_annealing has not been called: its default arguments, no locals.
SAIdle ==
    /\ schedule = [initial_temp |-> <<1000, 1>>, cooling_rate |-> <<9, 10>>,
                   min_temp |-> <<1, 1000>>]
    /\ current_paths = <<>>
    /\ current_cost = 0
    /\ best_paths = <<>>
    /\ best_cost = 0
    /\ temperature = <<0, 1>>
    /\ initial_cost = 0
    /\ sa_ret = None

\* get_neighbor is not being run statement by statement.
NbIdle ==
    /\ solutions = <<>>
    /\ new_solution = 0
    /\ uav_index = 0
    /\ start_idx = 0
    /\ end_idx = 0
    /\ retries = 0
    /\ nb_branch = "none"
    /\ nb_ret = 0

\* No connection has been accepted.
WsIdle ==
    /\ ws_messages = <<>>
    /\ ws_next = 0
    /\ ws_replies = <<>>
    /\ ws_state = "none"

-----------------------------------------------------------------------------
(* The cost model: path_cost *)

\* float('inf'), the cost of an invalid path
INF == -1

\* conflict_penalty=10000
conflict_penalty == 10000

NotCalled == [exc |-> "not called", value |-> 0]
Returned(v) == [exc |-> "none", value |-> v]
Raised(e) == [exc |-> e, value |-> 0]

\* except KeyError: return float('inf')
OnKeyError_unhandled == Raised("KeyError")

OnKeyError == Returned(INF)

\* One occupancy test: `if key in occupied_at_time: total_conflicts += 1
\* else: occupied_at_time[key] = True`, on the pair (occupied, conflicts).
Occupy_flags_once(st, key) ==
    IF key \in st.occupied
    THEN [st EXCEPT !.conflicts = 1]
    ELSE [st EXCEPT !.occupied = @ \cup {key}]

Occupy(st, key) ==
    IF key \in st.occupied
    THEN [st EXCEPT !.conflicts = @ + 1]
    ELSE [st EXCEPT !.occupied = @ \cup {key}]

\* The inner for loop over i in range(len(path) - 1), from 1-based position i.
\* st = [occupied, conflicts, path_len, failed].  (The state after each
\* iteration is bound by a quantifier so that it is computed once.)
RECURSIVE WalkEdges(_, _, _)
WalkEdges(path, i, st) ==
    IF i > Len(path) - 1 THEN st
    ELSE IF ~has_edge(path[i], path[i + 1]) THEN [st EXCEPT !.failed = TRUE]
    ELSE CHOOSE r \in
            {WalkEdges(path, i + 1, st1) :
                st1 \in {[Occupy(st, <<path[i], i - 1>>) EXCEPT
                            !.path_len = @ + G[<<path[i], path[i + 1]>>]]}} : TRUE

\* "Check the last node of the path": the key (path[-1], len(path) - 1).
CheckLast_skipped(path, st) == st

CheckLast(path, st) == Occupy(st, <<path[Len(path)], Len(path) - 1>>)

\* The outer loop from path number n on; acc = [occupied, conflicts, total_length].
RECURSIVE CostFrom(_, _, _, _)
CostFrom(paths, n, acc, penalty) ==
    IF n > Len(paths) THEN Returned(acc.total_length + acc.conflicts * penalty)
    ELSE
        LET path == paths[n]
        IN  CHOOSE r \in
              {IF walked.failed THEN OnKeyError
               ELSE IF Len(path) = 0 THEN Raised("IndexError")    \* path[-1] of []
               ELSE CHOOSE r2 \in
                      {CostFrom(paths, n + 1,
                          [occupied |-> last.occupied, conflicts |-> last.conflicts,
                           total_length |-> acc.total_length + last.path_len],
                          penalty) : last \in {CheckLast(path, walked)}} : TRUE :
               walked \in {WalkEdges(path, 1,
                            [occupied |-> acc.occupied, conflicts |-> acc.conflicts,
                             path_len |-> 0, failed |-> FALSE])}} : TRUE

path_cost_call(paths, penalty) ==
    CostFrom(paths, 1, [occupied |-> {}, conflicts |-> 0, total_length |-> 0], penalty)

-----------------------------------------------------------------------------
(* path_cost applied to arbitrary solutions *)

\* Most paths in a solution handed to path_cost, and most nodes in all of them.
CostMaxPaths == 3
CostMaxTotalNodes == 3
\* Most unavailable nodes of the lattice path_cost reads.
CostMaxUnavailable == 1

RECURSIVE PathsOfLen(_, _)
PathsOfLen(S, n) ==
    IF n = 0 THEN {<<>>}
    ELSE {Append(p, x) : p \in PathsOfLen(S, n - 1), x \in S}

PathsUpTo(S, n) == UNION {PathsOfLen(S, m) : m \in 0 .. n}

\* Every list of exactly v paths over S holding at most t nodes in all.
RECURSIVE SolutionsOf(_, _, _)
SolutionsOf(S, v, t) ==
    IF v = 0 THEN {<<>>}
    ELSE UNION {{<<p>> \o s : s \in SolutionsOf(S, v - 1, t - Len(p))} :
                    p \in PathsUpTo(S, t)}

InitCost ==
    /\ n_lat = 2 /\ n_lon = 2 /\ n_alt = 1
    /\ available \in Availabilities(NodesOf(2, 2, 1), CostMaxUnavailable)
    /\ G = BuiltGraph(available)
    /\ built = NumNodes
    /\ pc = "cost"
    \* nodes of the lattice and one tuple that is no node of it
    /\ cost_in \in UNION {SolutionsOf(NodesOf(2, 2, 1) \cup {<<2, 0, 0>>}, v, CostMaxTotalNodes) :
                            v \in 0 .. CostMaxPaths}
    /\ cost_out = NotCalled
    /\ PlanIdle
    /\ SAIdle
    /\ NbIdle
    /\ WsIdle

EvalCost ==
    /\ pc = "cost"
    /\ cost_out' = path_cost_call(cost_in, conflict_penalty)
    /\ pc' = "cost_done"
    /\ UNCHANGED <<wsVars, nbVars, graphVars, cost_in, planVars, saVars>>

NextCost == EvalCost

SpecCost == InitCost /\ [][NextCost]_vars

-----------------------------------------------------------------------------
(* The single-agent planner: rrt_path_planning and the shortest-path fallback *)

\* rrt_path_planning(..., max_iterations=1000, step_size=3): the model runs
\* the search with a small iteration budget.
max_iterations == 3
step_size == 3

\* node in G.nodes() and G.nodes[node]['available']
is_valid_node(node) == node \in Nodes /\ available[node]

is_path_clear_always(node1, node2) == TRUE

is_path_clear(node1, node2) == has_edge(node1, node2)

\* The square of calculate_node_distance: the code compares square roots of
\* these small integers, which order as the integers do.
Dist2(node1, node2) ==
    (node1[1] - node2[1]) * (node1[1] - node2[1])
    + (node1[2] - node2[2]) * (node1[2] - node2[2])
    + (node1[3] - node2[3]) * (node1[3] - node2[3])

\* calculate_node_distance(node, goal) <= 1.5, i.e. 4 * dist^2 <= 9
is_near_goal(node, goal) == 4 * Dist2(node, goal) <= 9

\* [available_nodes of sample_random_node] or, when there is none, any node
SampleSpace ==
    IF {u \in Nodes : available[u]} = {} THEN Nodes
    ELSE {u \in Nodes : available[u]}

TreeNodes(t) == {t[n].node : n \in 1 .. Len(t)}

TreeParent(t, node) == t[CHOOSE n \in 1 .. Len(t) : t[n].node = node].parent

\* tree[node] = parent: a new key goes last, an old key keeps its place.
TreeSet(t, node, parent) ==
    IF node \in TreeNodes(t)
    THEN [n \in 1 .. Len(t) |->
            IF t[n].node = node THEN [node |-> node, parent |-> parent] ELSE t[n]]
    ELSE Append(t, [node |-> node, parent |-> parent])

\* find_nearest_node: the first key of the tree at the least distance
find_nearest_node(t, target) ==
    t[CHOOSE n \in 1 .. Len(t) :
        /\ \A m \in 1 .. Len(t) : Dist2(t[n].node, target) <= Dist2(t[m].node, target)
        /\ \A m \in 1 .. n - 1 : Dist2(t[m].node, target) > Dist2(t[n].node, target)].node

\* np.round(step * d / sqrt(s)) for a component d of a direction of squared
\* length s: the m with m - 1/2 <= step * |d| / sqrt(s) < m + 1/2, signed as d.
RoundedStep(d, s, step) ==
    LET m == CHOOSE m \in 0 .. step :
                /\ m = 0 \/ (2 * m - 1) * (2 * m - 1) * s <= 4 * step * step * d * d
                /\ 4 * step * step * d * d < (2 * m + 1) * (2 * m + 1) * s
    IN  IF d < 0 THEN -m ELSE m

\* extend_tree(from_node, to_node, step_size); None when out of bounds
extend_tree(from_node, to_node, step) ==
    LET s == Dist2(from_node, to_node)
        new_node ==
            IF s <= step * step THEN to_node
            ELSE <<from_node[1] + RoundedStep(to_node[1] - from_node[1], s, step),
                   from_node[2] + RoundedStep(to_node[2] - from_node[2], s, step),
                   from_node[3] + RoundedStep(to_node[3] - from_node[3], s, step)>>
    IN  IF s = 0 THEN from_node
        ELSE IF InBounds(new_node) THEN new_node
        ELSE None

\* reconstruct_path's while loop: follow the parents from `current`, newest
\* first.  A walk longer than the tree has entered a cycle, which the code
\* would follow for ever.
\* Stands for a walk that never ends: a path of one tuple that is no node.
NeverReturns == <<<<-1, -1, -1>>>>

RECURSIVE WalkParents_unreversed(_, _, _)
WalkParents_unreversed(t, current, acc) ==
    IF current = None THEN acc
    ELSE IF Len(acc) > Len(t) THEN NeverReturns
    ELSE WalkParents_unreversed(t, TreeParent(t, current), Append(acc, current))

RECURSIVE WalkParents(_, _, _)
WalkParents(t, current, acc) ==
    IF current = None THEN acc
    ELSE IF Len(acc) > Len(t) THEN NeverReturns
    ELSE WalkParents(t, TreeParent(t, current), <<current>> \o acc)

reconstruct_path(t, start, goal) ==
    IF goal \notin TreeNodes(t) THEN None
    ELSE WalkParents(t, goal, <<>>)

\* Lines 245-254: what rrt_path_planning does before its loop.
RRTEntry_no_same_check(start, goal) ==
    IF ~(is_valid_node(start) /\ is_valid_node(goal)) THEN "invalid" ELSE "search"

RRTEntry(start, goal) ==
    IF ~(is_valid_node(start) /\ is_valid_node(goal)) THEN "invalid"
    ELSE IF start = goal THEN "same"
    ELSE "search"

\* One iteration of the loop with the sample rand_node: the tree after it,
\* and the path returned (None to go on).
RRTStep_no_clear_check(t, start, goal, rand_node) ==
    LET nearest_node == find_nearest_node(t, rand_node)
        new_node == extend_tree(nearest_node, rand_node, step_size)
    IN  IF new_node # None /\ is_valid_node(new_node)
        THEN LET t1 == TreeSet(t, new_node, nearest_node)
             IN  IF new_node = goal
                 THEN [tree |-> t1, ret |-> reconstruct_path(t1, start, goal)]
                 ELSE IF is_near_goal(new_node, goal) /\ is_path_clear(new_node, goal)
                 THEN LET t2 == TreeSet(t1, goal, new_node)
                      IN  [tree |-> t2, ret |-> reconstruct_path(t2, start, goal)]
                 ELSE [tree |-> t1, ret |-> None]
        ELSE [tree |-> t, ret |-> None]

RRTStep(t, start, goal, rand_node) ==
    LET nearest_node == find_nearest_node(t, rand_node)
        new_node == extend_tree(nearest_node, rand_node, step_size)
    IN  IF new_node # None /\ is_valid_node(new_node) /\ is_path_clear(nearest_node, new_node)
        THEN LET t1 == TreeSet(t, new_node, nearest_node)
             IN  IF new_node = goal
                 THEN [tree |-> t1, ret |-> reconstruct_path(t1, start, goal)]
                 ELSE IF is_near_goal(new_node, goal) /\ is_path_clear(new_node, goal)
                 THEN LET t2 == TreeSet(t1, goal, new_node)
                      IN  [tree |-> t2, ret |-> reconstruct_path(t2, start, goal)]
                 ELSE [tree |-> t1, ret |-> None]
        ELSE [tree |-> t, ret |-> None]

(* nx.shortest_path(G, source, target, weight='weight') *)

\* One round of relaxing every edge.  D holds a pair <<node, distance>> for
\* each node reached so far, with its least distance found.
RelaxOnce(D) ==
    UNION {{c \in cand : \A c2 \in cand : c2[1] = c[1] => c[2] <= c2[2]} :
            cand \in {D \cup {<<x[1][2], x[2][2] + G[x[1]]>> :
                            x \in {x \in (DOMAIN G) \X D : x[1][1] = x[2][1]}}}}

\* (each round is bound by a quantifier so that it is computed once)
RECURSIVE RelaxTimes(_, _)
RelaxTimes(D, n) ==
    IF n = 0 THEN D
    ELSE CHOOSE R \in {RelaxTimes(D1, n - 1) : D1 \in {RelaxOnce(D)}} : TRUE

\* The weighted distance from source to every node it reaches.
DistancesFrom(source) == RelaxTimes({<<source, 0>>}, NumNodes - 1)

Reached(D) == {c[1] : c \in D}

DistanceIn(D, v) == (CHOOSE c \in D : c[1] = v)[2]

\* Every least-weight path from the source of D to v.
RECURSIVE PathsBack(_, _, _)
PathsBack(D, source, v) ==
    IF v = source THEN {<<source>>}
    ELSE UNION {{Append(p, v) : p \in PathsBack(D, source, e[1])} :
                    e \in {e \in DOMAIN G :
                            /\ e[2] = v
                            /\ e[1] \in Reached(D)
                            /\ DistanceIn(D, e[1]) + G[e] = DistanceIn(D, v)}}

\* The paths nx.shortest_path may return: [source] when source = target, a
\* least-weight path otherwise (which one among equals is the library's
\* choice), none when it raises NetworkXNoPath.  Both nodes are in G.
ShortestPaths_fewest_hops(source, target) ==
    LET RECURSIVE SimplePaths(_)
        SimplePaths(n) ==
            IF n = 0 THEN {<<source>>}
            ELSE UNION {{Append(p, e[2]) : e \in
                            {e \in DOMAIN G :
                                /\ e[1] = p[Len(p)]
                                /\ \A k \in 1 .. Len(p) : p[k] # e[2]}} :
                        p \in SimplePaths(n - 1)}
        Arriving(n) == {p \in SimplePaths(n) : p[Len(p)] = target}
        Hops == {n \in 0 .. NumNodes - 1 : Arriving(n) # {}}
    IN  IF Hops = {} THEN {}
        ELSE Arriving(CHOOSE n \in Hops : \A m \in Hops : n <= m)

ShortestPaths(source, target) ==
    UNION {IF target \notin Reached(D) THEN {} ELSE PathsBack(D, source, target) :
            D \in {DistancesFrom(source)}}

(* generate_initial_solution *)

\* Lines 216-225 once rrt_path_planning has returned `ret` for the route of
\* the loop: append it, or fall back to nx.shortest_path, or return [].
AfterRRT_skips_stranded(ret) ==
    LET route == uav_routes[route_idx]
        shortest == ShortestPaths(route.origin, route.destination)
    IN  /\ rrt_ret' = ret
        /\ IF ret # None
           THEN /\ gen_paths' = Append(gen_paths, ret)
                /\ gen_via' = Append(gen_via, "rrt")
                /\ route_idx' = route_idx + 1
                /\ pc' = "gen"
           ELSE IF shortest # {}
           THEN /\ \E sp \in shortest : gen_paths' = Append(gen_paths, sp)
                /\ gen_via' = Append(gen_via, "fallback")
                /\ route_idx' = route_idx + 1
                /\ pc' = "gen"
           ELSE \* the route is skipped and the loop goes on
                /\ UNCHANGED <<gen_paths, gen_via>>
                /\ route_idx' = route_idx + 1
                /\ pc' = "gen"

AfterRRT(ret) ==
    LET route == uav_routes[route_idx]
        shortest == ShortestPaths(route.origin, route.destination)
    IN  /\ rrt_ret' = ret
        /\ IF ret # None
           THEN /\ gen_paths' = Append(gen_paths, ret)
                /\ gen_via' = Append(gen_via, "rrt")
                /\ route_idx' = route_idx + 1
                /\ pc' = "gen"
           ELSE IF shortest # {}
           THEN /\ \E sp \in shortest : gen_paths' = Append(gen_paths, sp)
                /\ gen_via' = Append(gen_via, "fallback")
                /\ route_idx' = route_idx + 1
                /\ pc' = "gen"
           ELSE \* except nx.NetworkXNoPath: return []
                /\ gen_paths' = <<>>
                /\ gen_via' = <<>>
                /\ route_idx' = route_idx
                /\ pc' = "gen_ret"

\* The for loop takes the next route and calls rrt_path_planning, which
\* returns at once or starts its tree.
GenCallRRT ==
    /\ pc = "gen"
    /\ route_idx <= Len(uav_routes)
    /\ LET start == uav_routes[route_idx].origin
           goal == uav_routes[route_idx].destination
           entry == RRTEntry(start, goal)
       IN  IF entry = "search"
           THEN /\ tree' = <<[node |-> start, parent |-> None]>>
                /\ iteration' = 0
                /\ pc' = "rrt"
                /\ UNCHANGED <<gen_paths, gen_via, rrt_ret, route_idx>>
           ELSE /\ AfterRRT(IF entry = "same" THEN <<start>> ELSE None)
                /\ UNCHANGED <<tree, iteration>>
    /\ UNCHANGED <<wsVars, nbVars, graphVars, costVars, saVars, uav_routes>>

\* One iteration of the RRT loop: sample the goal (goal bias) or a random
\* available node, extend, and return the path if the goal is reached.
RRTIterate ==
    /\ pc = "rrt"
    /\ iteration < max_iterations
    /\ \E rand_node \in {uav_routes[route_idx].destination} \cup SampleSpace :
        LET step == RRTStep(tree, uav_routes[route_idx].origin,
                            uav_routes[route_idx].destination, rand_node)
        IN  /\ tree' = step.tree
            /\ iteration' = iteration + 1
            /\ IF step.ret # None
               THEN AfterRRT(step.ret)
               ELSE UNCHANGED <<gen_paths, gen_via, rrt_ret, route_idx, pc>>
    /\ UNCHANGED <<wsVars, nbVars, graphVars, costVars, saVars, uav_routes>>

\* The loop has used up max_iterations: rrt_path_planning returns None.
RRTFail ==
    /\ pc = "rrt"
    /\ iteration = max_iterations
    /\ AfterRRT(None)
    /\ UNCHANGED <<wsVars, nbVars, graphVars, costVars, saVars, uav_routes, tree, iteration>>

\* The for loop is over: generate_initial_solution returns paths.
GenReturn ==
    /\ pc = "gen"
    /\ route_idx > Len(uav_routes)
    /\ pc' = "gen_ret"
    /\ UNCHANGED <<wsVars, nbVars, graphVars, costVars, planVars, saVars>>

\* Most unavailable nodes of the lattice a single plan runs on.
PlanMaxUnavailable == 1

\* The grids a single plan runs on: a line long enough for a sample to lie
\* farther than step_size, and a strip with diagonals.
PlanGrids == {<<5, 1, 1>>, <<3, 2, 1>>}

Routes(nodes) == [origin : nodes, destination : nodes]

InitPlan ==
    /\ \E g \in PlanGrids : n_lat = g[1] /\ n_lon = g[2] /\ n_alt = g[3]
    /\ available \in Availabilities(NodesOf(n_lat, n_lon, n_alt), PlanMaxUnavailable)
    /\ G = BuiltGraph(available)
    /\ built = NumNodes
    /\ cost_in = <<>>
    /\ cost_out = NotCalled
    /\ \E r \in Routes(NodesOf(n_lat, n_lon, n_alt)) : uav_routes = <<r>>
    /\ route_idx = 1
    /\ gen_paths = <<>>
    /\ gen_via = <<>>
    /\ rrt_ret = None
    /\ tree = <<>>
    /\ iteration = 0
    /\ SAIdle
    /\ NbIdle
    /\ WsIdle
    /\ pc = "gen"

NextPlan == GenCallRRT \/ RRTIterate \/ RRTFail \/ GenReturn

SpecPlan == InitPlan /\ [][NextPlan]_vars

-----------------------------------------------------------------------------
(* The local search operator: get_neighbor *)

\* path_to_modify[:start_idx] + new_segment + path_to_modify[end_idx+1:], with
\* 1-based positions s < e of the segment's ends
Splice_keeps_segment_end(path, s, e, new_segment) ==
    SubSeq(path, 1, s - 1) \o new_segment \o SubSeq(path, e, Len(path))

Splice(path, s, e, new_segment) ==
    SubSeq(path, 1, s - 1) \o new_segment \o SubSeq(path, e + 1, Len(path))

\* The random draws of one call: the UAV, and for a path of at least 3 nodes
\* the two ends of the segment (s = e = 0 when the path is shorter).
NeighborDraws(solution) ==
    UNION {IF Len(solution[u]) < 3
           THEN {[uav |-> u, s |-> 0, e |-> 0]}
           ELSE {[uav |-> u, s |-> se[1], e |-> se[2]] :
                    se \in {se \in (1 .. Len(solution[u]) - 1) \X (2 .. Len(solution[u])) :
                                se[1] < se[2]}} :
            u \in 1 .. Len(solution)}

\* What one draw leads to: "short" (line 383), "nopath" (line 406), "retry"
\* (line 398: the call starts over) or "spliced" (line 408) with the solution
\* returned.
DrawOutcomes(solution, draw) ==
    IF draw.s = 0 THEN {[kind |-> "short", ret |-> solution]}
    ELSE LET path_to_modify == solution[draw.uav]
         IN  UNION
             {IF segments = {} THEN {[kind |-> "nopath", ret |-> solution]}
              ELSE {IF Len(new_segment) < 2
                    THEN [kind |-> "retry", ret |-> solution]
                    ELSE [kind |-> "spliced",
                          ret |-> [solution EXCEPT ![draw.uav] =
                                     Splice(path_to_modify, draw.s, draw.e, new_segment)]] :
                    new_segment \in segments} :
              segments \in {ShortestPaths(path_to_modify[draw.s], path_to_modify[draw.e])}}

\* The solutions a call of get_neighbor may return: a draw that retries
\* returns what the call that starts over returns.
get_neighbor(solution) ==
    {o.ret : o \in {o \in UNION {DrawOutcomes(solution, d) : d \in NeighborDraws(solution)} :
                        o.kind # "retry"}}

-----------------------------------------------------------------------------
(* The optimizer: simulated_annealing *)

path_cost(paths) == path_cost_call(paths, conflict_penalty)

\* a < b on costs, of which either may be float('inf')
CostLess(a, b) == a # INF /\ (b = INF \/ a < b)

\* Exact rationals <<numerator, denominator>>, denominator > 0
RECURSIVE GCD(_, _)
GCD(a, b) == IF b = 0 THEN a ELSE GCD(b, a % b)

RatNorm(r) == LET g == GCD(r[1], r[2]) IN IF g = 0 THEN r ELSE <<r[1] \div g, r[2] \div g>>
RatMul(a, b) == RatNorm(<<a[1] * b[1], a[2] * b[2]>>)
RatLess(a, b) == a[1] * b[2] < b[1] * a[2]

\* The largest finite temperature: stands for the largest double, beyond
\* which a product is float('inf'), written <<1, 0>>.
TempOverflow == 1000

\* `temperature *= cooling_rate`
Cool_skipped(temp, rate) == temp

Cool(temp, rate) ==
    LET product == RatMul(temp, rate)
    IN  IF product[2] = 0 \/ product[1] > TempOverflow * product[2]
        THEN <<1, 0>>
        ELSE product

\* math.exp(-x) is 0.0 once x exceeds 745.13 (times 100 here)
ExpUnderflowX100 == 74513

\* `delta < 0 or random.uniform(0, 1) < math.exp(-delta / temperature)`: the
\* set of values the condition may take.  With new_cost or current_cost
\* infinite, delta is inf, -inf or nan.
AcceptChoices(new_cost, cur_cost, temp) ==
    IF new_cost = INF THEN {FALSE}                  \* delta = inf or nan
    ELSE IF cur_cost = INF THEN {TRUE}              \* delta = -inf
    ELSE IF new_cost - cur_cost < 0 THEN {TRUE}
    ELSE IF new_cost - cur_cost = 0 THEN {TRUE}     \* uniform(0, 1) < 1.0
    ELSE IF temp[2] = 0 THEN {TRUE}                 \* exp(-delta / inf) = 1.0
    ELSE IF (new_cost - cur_cost) * temp[2] * 100 <= ExpUnderflowX100 * temp[1]
         THEN {TRUE, FALSE}
    ELSE {FALSE}                                    \* uniform(0, 1) < 0.0

\* `if current_cost < best_cost`
BestImproves_on_accept(cur_cost, bst_cost) == TRUE

BestImproves_never(cur_cost, bst_cost) == FALSE

BestImproves(cur_cost, bst_cost) == CostLess(cur_cost, bst_cost)

\* Lines 415-423: generate_initial_solution has returned its paths, and its
\* locals and those of rrt_path_planning are gone with it.
SAStart ==
    /\ pc = "gen_ret"
    /\ IF gen_paths = <<>>
       THEN \* `if not current_paths: return None`
            /\ sa_ret' = None
            /\ pc' = "sa_done"
            /\ UNCHANGED <<current_paths, current_cost, best_paths, best_cost,
                           temperature, initial_cost>>
       ELSE \E cost \in {path_cost(gen_paths)} :
                IF cost.exc # "none"
                THEN /\ pc' = "sa_raised"
                     /\ UNCHANGED <<current_paths, current_cost, best_paths, best_cost,
                                    temperature, initial_cost, sa_ret>>
                ELSE /\ current_paths' = gen_paths
                     /\ best_paths' = gen_paths
                     /\ current_cost' = cost.value
                     /\ best_cost' = cost.value
                     /\ initial_cost' = cost.value
                     /\ temperature' = schedule.initial_temp
                     /\ pc' = "search"
                     /\ UNCHANGED sa_ret
    /\ route_idx' = 1
    /\ gen_paths' = <<>>
    /\ gen_via' = <<>>
    /\ rrt_ret' = None
    /\ tree' = <<>>
    /\ iteration' = 0
    /\ UNCHANGED <<wsVars, nbVars, graphVars, costVars, uav_routes, schedule>>

\* One iteration of `while temperature > min_temp` (lines 427-444).
SAStep ==
    /\ pc = "search"
    /\ RatLess(schedule.min_temp, temperature)
    /\ \E new_paths \in get_neighbor(current_paths) :
        \E cost \in {path_cost(new_paths)} :
            IF cost.exc # "none"
            THEN /\ pc' = "sa_raised"
                 /\ UNCHANGED <<current_paths, current_cost, best_paths, best_cost,
                                temperature>>
            ELSE \E accept \in AcceptChoices(cost.value, current_cost, temperature) :
                    /\ current_paths' = IF accept THEN new_paths ELSE current_paths
                    /\ current_cost' = IF accept THEN cost.value ELSE current_cost
                    /\ IF BestImproves(current_cost', best_cost)
                       THEN best_paths' = current_paths' /\ best_cost' = current_cost'
                       ELSE UNCHANGED <<best_paths, best_cost>>
                    /\ temperature' = Cool(temperature, schedule.cooling_rate)
                    /\ UNCHANGED pc
    /\ UNCHANGED <<wsVars, nbVars, graphVars, costVars, planVars, schedule, initial_cost, sa_ret>>

\* The loop is over: `return best_paths`.
SAReturn ==
    /\ pc = "search"
    /\ ~RatLess(schedule.min_temp, temperature)
    /\ sa_ret' = best_paths
    /\ pc' = "sa_done"
    /\ UNCHANGED <<wsVars, nbVars, graphVars, costVars, planVars, schedule, current_paths, current_cost,
                   best_paths, best_cost, temperature, initial_cost>>

\* Most unavailable nodes of the lattice the optimizer runs on, and most
\* route requests handed to it.
SAMaxUnavailable == 1
SAMaxRoutes == 2

\* The grid the optimizer runs on
SAGrid == <<3, 2, 1>>

\* The temperature schedules the optimizer is run with: a cold one, which
\* takes no move that adds a conflict, and a hot one, which may.
SASchedules ==
    {[initial_temp |-> <<4, 1>>, cooling_rate |-> <<1, 2>>, min_temp |-> <<1, 1>>],
     [initial_temp |-> <<1000, 1>>, cooling_rate |-> <<1, 2>>, min_temp |-> <<250, 1>>]}

\* Requests across the grid: from a node of the left edge (index 0 on the
\* first axis) to a node of the right edge (index n_lat - 1).
CrossRoutes(nodes, nl) ==
    {r \in Routes(nodes) : r.origin[1] = 0 /\ r.destination[1] = nl - 1}

RouteLists(nodes, nl, maxRoutes) ==
    UNION {[1 .. n -> CrossRoutes(nodes, nl)] : n \in 0 .. maxRoutes}

InitSA ==
    /\ n_lat = SAGrid[1] /\ n_lon = SAGrid[2] /\ n_alt = SAGrid[3]
    /\ available \in Availabilities(NodesOf(n_lat, n_lon, n_alt), SAMaxUnavailable)
    /\ G = BuiltGraph(available)
    /\ built = NumNodes
    /\ cost_in = <<>>
    /\ cost_out = NotCalled
    /\ uav_routes \in RouteLists(NodesOf(n_lat, n_lon, n_alt), n_lat, SAMaxRoutes)
    /\ route_idx = 1
    /\ gen_paths = <<>>
    /\ gen_via = <<>>
    /\ rrt_ret = None
    /\ tree = <<>>
    /\ iteration = 0
    /\ schedule \in SASchedules
    /\ current_paths = <<>>
    /\ current_cost = 0
    /\ best_paths = <<>>
    /\ best_cost = 0
    /\ temperature = <<0, 1>>
    /\ initial_cost = 0
    /\ sa_ret = None
    /\ NbIdle
    /\ WsIdle
    /\ pc = "gen"

NextSA ==
    \/ GenCallRRT \/ RRTIterate \/ RRTFail \/ GenReturn
    \/ SAStart \/ SAStep \/ SAReturn

SpecSA == InitSA /\ [][NextSA]_vars

-----------------------------------------------------------------------------
(* The optimizer on two crossing vehicles *)

\* A fully available 3 x 3 x 1 grid and two requests, corner to opposite
\* corner, whose shortest paths both pass the centre node at index 1.
CrossGrid == <<3, 3, 1>>

CrossingRoutes ==
    <<[origin |-> <<0, 0, 0>>, destination |-> <<2, 2, 0>>],
      [origin |-> <<0, 2, 0>>, destination |-> <<2, 0, 0>>]>>

InitCross ==
    /\ n_lat = CrossGrid[1] /\ n_lon = CrossGrid[2] /\ n_alt = CrossGrid[3]
    /\ available = [u \in NodesOf(n_lat, n_lon, n_alt) |-> TRUE]
    /\ G = BuiltGraph(available)
    /\ built = NumNodes
    /\ cost_in = <<>>
    /\ cost_out = NotCalled
    /\ uav_routes = CrossingRoutes
    /\ route_idx = 1
    /\ gen_paths = <<>>
    /\ gen_via = <<>>
    /\ rrt_ret = None
    /\ tree = <<>>
    /\ iteration = 0
    /\ schedule \in SASchedules
    /\ current_paths = <<>>
    /\ current_cost = 0
    /\ best_paths = <<>>
    /\ best_cost = 0
    /\ temperature = <<0, 1>>
    /\ initial_cost = 0
    /\ sa_ret = None
    /\ NbIdle
    /\ WsIdle
    /\ pc = "gen"

NextCross == NextSA

SpecCross == InitCross /\ [][NextCross]_vars

-----------------------------------------------------------------------------
(* The optimizer's loop from a given initial solution *)

\* Most route requests of a run of the loop.
CoolMaxRoutes == 1

CoolGrid == <<3, 2, 1>>

\* Schedules that cool (those of SASchedules, a longer one, and one that
\* passes below min_temp without meeting it), one that stays where it is
\* (cooling_rate = 1) and one that heats up (cooling_rate = 2).
CoolSchedules ==
    SASchedules \cup
    {[initial_temp |-> <<16, 1>>, cooling_rate |-> <<1, 2>>, min_temp |-> <<1, 1>>],
     [initial_temp |-> <<10, 1>>, cooling_rate |-> <<1, 3>>, min_temp |-> <<1, 2>>],
     [initial_temp |-> <<4, 1>>, cooling_rate |-> <<1, 1>>, min_temp |-> <<1, 1>>],
     [initial_temp |-> <<250, 1>>, cooling_rate |-> <<2, 1>>, min_temp |-> <<1, 1>>]}

\* Paths rrt_path_planning returns for a request across the grid: its first
\* sample is a neighbour of the origin that has an edge to the destination.
TwoHopPaths(route) ==
    {<<route.origin, mid, route.destination>> :
        mid \in {mid \in Nodes : /\ has_edge(route.origin, mid)
                                 /\ has_edge(mid, route.destination)}}

\* The initial solutions of two-hop paths for the requests
RECURSIVE TwoHopSolutions(_, _)
TwoHopSolutions(routes, n) ==
    IF n = 0 THEN {<<>>}
    ELSE {Append(sol, path) : sol \in TwoHopSolutions(routes, n - 1),
                              path \in TwoHopPaths(routes[n])}

\* generate_initial_solution has just returned a solution of two-hop paths.
InitCool ==
    /\ n_lat = CoolGrid[1] /\ n_lon = CoolGrid[2] /\ n_alt = CoolGrid[3]
    /\ available = [u \in NodesOf(n_lat, n_lon, n_alt) |-> TRUE]
    /\ G = BuiltGraph(available)
    /\ built = NumNodes
    /\ cost_in = <<>>
    /\ cost_out = NotCalled
    /\ uav_routes \in RouteLists(NodesOf(n_lat, n_lon, n_alt), n_lat, CoolMaxRoutes)
    /\ uav_routes # <<>>
    /\ route_idx = Len(uav_routes) + 1
    /\ gen_paths \in TwoHopSolutions(uav_routes, Len(uav_routes))
    /\ gen_via = [n \in 1 .. Len(uav_routes) |-> "rrt"]
    /\ rrt_ret = gen_paths[Len(gen_paths)]
    /\ tree = <<>>
    /\ iteration = 0
    /\ schedule \in CoolSchedules
    /\ current_paths = <<>>
    /\ current_cost = 0
    /\ best_paths = <<>>
    /\ best_cost = 0
    /\ temperature = <<0, 1>>
    /\ initial_cost = 0
    /\ sa_ret = None
    /\ NbIdle
    /\ WsIdle
    /\ pc = "gen_ret"

NextCool == SAStart \/ SAStep \/ SAReturn

\* The program is one thread that runs on until it returns: a step that can
\* be taken is taken.
SpecCool == InitCool /\ [][NextCool]_vars /\ WF_vars(NextCool)

-----------------------------------------------------------------------------
(* get_neighbor, statement by statement *)

\* A solution is a Python list, which has an identity: `solutions` holds the
\* lists alive, and a name of the code holds the index of one of them.  The
\* caller's list is the first.  (The paths inside are lists too; get_neighbor
\* builds new_path by slicing and never assigns into a path, so only the
\* outer lists are kept apart here.)
current_solution == 1

\* Most calls get_neighbor makes of itself that the model follows.
NbMaxRetries == 2
\* Most paths in a solution handed to get_neighbor, most nodes in all of
\* them, and most unavailable nodes of the lattice.
NbMaxPaths == 2
NbMaxTotalNodes == 4
NbMaxUnavailable == 1

\* The grid get_neighbor runs on: a line of three nodes
NbGrid == <<3, 1, 1>>

\* new_solution = copy.deepcopy(current_solution): the lists afterwards, and
\* which of them new_solution names.
DeepCopy_alias(lists, original) == [lists |-> lists, ref |-> original]

DeepCopy(lists, original) ==
    [lists |-> Append(lists, lists[original]), ref |-> Len(lists) + 1]

\* `if len(path_to_modify) < 3`
TooShort_below_two(path) == Len(path) < 2

TooShort(path) == Len(path) < 3

\* `except nx.NetworkXNoPath: return current_solution`
OnNoPath_unhandled == "raise"

OnNoPath == "return"

\* Line 375.
NbCopy ==
    /\ pc = "nb_call"
    /\ LET copied == DeepCopy(solutions, current_solution)
       IN  /\ solutions' = copied.lists
           /\ new_solution' = copied.ref
    /\ pc' = "nb_copied"
    /\ UNCHANGED <<wsVars, graphVars, costVars, planVars, saVars, uav_index, start_idx,
                   end_idx, retries, nb_branch, nb_ret>>

\* Lines 378-387: the draws.  random.randint(0, -1) raises ValueError for a
\* solution without paths.
NbDraw ==
    /\ pc = "nb_copied"
    /\ IF Len(solutions[new_solution]) = 0
       THEN /\ pc' = "nb_raised"
            /\ nb_branch' = "ValueError"
            /\ UNCHANGED <<uav_index, start_idx, end_idx, nb_ret>>
       ELSE \E u \in 1 .. Len(solutions[new_solution]) :
            /\ uav_index' = u
            /\ IF TooShort(solutions[new_solution][u])
               THEN /\ nb_ret' = new_solution
                    /\ nb_branch' = "short"
                    /\ pc' = "nb_done"
                    /\ start_idx' = 0
                    /\ end_idx' = 0
               ELSE /\ \E s \in 1 .. Len(solutions[new_solution][u]) - 1 :
                        \E e \in s + 1 .. Len(solutions[new_solution][u]) :
                            start_idx' = s /\ end_idx' = e
                    /\ pc' = "nb_drawn"
                    /\ UNCHANGED <<nb_ret, nb_branch>>
    /\ UNCHANGED <<wsVars, graphVars, costVars, planVars, saVars, solutions, new_solution,
                   retries>>

\* Lines 389-408: reroute the segment, or start over, or give up.
NbReroute ==
    /\ pc = "nb_drawn"
    /\ LET path_to_modify == solutions[new_solution][uav_index]
       IN  \E segments \in {ShortestPaths(path_to_modify[start_idx],
                                          path_to_modify[end_idx])} :
            IF segments = {}
            THEN IF OnNoPath = "return"
                 THEN /\ nb_ret' = current_solution
                      /\ nb_branch' = "nopath"
                      /\ pc' = "nb_done"
                      /\ UNCHANGED <<solutions, retries>>
                 ELSE /\ nb_branch' = "NetworkXNoPath"
                      /\ pc' = "nb_raised"
                      /\ UNCHANGED <<solutions, retries, nb_ret>>
            ELSE \E new_segment \in segments :
                IF Len(new_segment) < 2
                THEN \* return get_neighbor(current_solution)
                     /\ retries < NbMaxRetries
                     /\ retries' = retries + 1
                     /\ pc' = "nb_call"
                     /\ UNCHANGED <<solutions, nb_ret, nb_branch>>
                ELSE \* new_solution[uav_index] = new_path; return new_solution
                     /\ solutions' =
                            [solutions EXCEPT ![new_solution][uav_index] =
                                Splice(path_to_modify, start_idx, end_idx, new_segment)]
                     /\ nb_ret' = new_solution
                     /\ nb_branch' = "spliced"
                     /\ pc' = "nb_done"
                     /\ UNCHANGED retries
    /\ UNCHANGED <<wsVars, graphVars, costVars, planVars, saVars, new_solution, uav_index,
                   start_idx, end_idx>>

\* get_neighbor is called with a list of node sequences of the graph.
InitNeighbor ==
    /\ n_lat = NbGrid[1] /\ n_lon = NbGrid[2] /\ n_alt = NbGrid[3]
    /\ available \in Availabilities(NodesOf(n_lat, n_lon, n_alt), NbMaxUnavailable)
    /\ G = BuiltGraph(available)
    /\ built = NumNodes
    /\ cost_in = <<>>
    /\ cost_out = NotCalled
    /\ PlanIdle
    /\ SAIdle
    /\ WsIdle
    /\ \E sol \in UNION {SolutionsOf(NodesOf(n_lat, n_lon, n_alt), v, NbMaxTotalNodes) :
                            v \in 0 .. NbMaxPaths} :
            solutions = <<sol>>
    /\ new_solution = 0
    /\ uav_index = 0
    /\ start_idx = 0
    /\ end_idx = 0
    /\ retries = 0
    /\ nb_branch = "none"
    /\ nb_ret = 0
    /\ pc = "nb_call"

NextNeighbor == NbCopy \/ NbDraw \/ NbReroute

SpecNeighbor == InitNeighbor /\ [][NextNeighbor]_vars

-----------------------------------------------------------------------------
(* The request/response service: websocket_handler, one message per step *)

\* Most frames a client sends on one connection.
WsMaxMessages == 2
\* Most unavailable nodes of airspace_graph.
WsMaxUnavailable == 3

\* A line of three nodes: its ends are cut off from each other when the
\* middle node is unavailable.
WsGrid == <<3, 1, 1>>

\* dx**2 + dy**2 + dz**2 of slant_range.  find_closest_node compares the
\* square roots, which are ordered as these are.
SquaredRange(p1, p2) ==
    LET dx == p2[1] - p1[1]
        dy == p2[2] - p1[2]
        dz == p2[3] - p1[3]
    IN  dx * dx + dy * dy + dz * dz

\* The place of a node in graph.nodes(): the order of the list `nodes`.
NodeRank(u) == (u[1] * n_lon + u[2]) * n_alt + u[3]

\* find_closest_node(airspace_graph, target_position), the position being
\* (x, y, z): the first available node in graph.nodes() order at the least
\* distance (`distance < min_distance`), None when no node is available.
find_closest_node(target_pos) ==
    LET candidates == {u \in Nodes : available[u]}
    IN  IF candidates = {} THEN None
        ELSE CHOOSE u \in candidates : \A v \in candidates :
                \/ SquaredRange(target_pos, pos(u)) < SquaredRange(target_pos, pos(v))
                \/ /\ SquaredRange(target_pos, pos(u)) = SquaredRange(target_pos, pos(v))
                   /\ NodeRank(u) <= NodeRank(v)

\* debug_position_mapping prints what it finds and returns closest_node.
debug_position_mapping(position) == find_closest_node(position)

\* data.get(key) on a JSON object: None for a key it lacks
Get(data, key) == IF key \in DOMAIN data THEN data[key] ELSE None

\* One waypoint of the route, for the i-th node of the path.
Waypoint(node, i, max_speed) ==
    LET node_pos == pos(node)
    IN  [x |-> node_pos[1],
         y |-> node_pos[3],
         z |-> node_pos[2],
         altitude |-> node_pos[2],
         speed |-> RatNorm(<<max_speed * 4, 5>>),      \* max_speed * 0.8
         description |-> i]

ErrorResponse(drone_id) ==
    [type |-> "route_response", drone_id |-> drone_id, status |-> "error",
     message |-> "Could not find valid graph nodes for start or end position"]

NoPathResponse(drone_id) ==
    [type |-> "route_response", drone_id |-> drone_id, status |-> "no_path",
     message |-> "No path found in graph between start and end positions"]

SuccessResponse(drone_id, route) ==
    [type |-> "route_response", drone_id |-> drone_id, status |-> "success",
     route |-> route]

\* f"Echo: {message}"
Echo(message) == [type |-> "echo", message |-> message]

\* What handling one message did: the frames sent, and the exception that
\* left the handler ("none" when the loop goes on to the next message).
Handled(sent, exc) == [sent |-> sent, exc |-> exc]

\* Lines 25-97, the request_route branch.  A position is the (x, y, z) of the
\* dict; start_pos['x'] of None raises TypeError (line 35), and so does
\* None * 0.8 (line 69), which no except clause of the handler catches.
request_route(data) ==
    LET drone_id == Get(data, "drone_id")
        start_pos == Get(data, "start_position")
        end_pos == Get(data, "end_position")
    IN  IF start_pos = None \/ end_pos = None
        THEN {Handled(<<>>, "TypeError")}
        ELSE UNION {
            IF nodes[1] = None \/ nodes[2] = None
            THEN {Handled(<<ErrorResponse(drone_id)>>, "none")}
            ELSE UNION {
                IF paths = {}        \* except nx.NetworkXNoPath
                THEN {Handled(<<NoPathResponse(drone_id)>>, "none")}
                ELSE IF "max_speed" \notin DOMAIN data
                THEN {Handled(<<>>, "TypeError")}
                ELSE {Handled(<<SuccessResponse(drone_id,
                                    [i \in 1 .. Len(path_nodes) |->
                                        Waypoint(path_nodes[i], i, data["max_speed"])])>>,
                              "none") : path_nodes \in paths} :
                paths \in {ShortestPaths(nodes[1], nodes[2])}} :
            nodes \in {<<debug_position_mapping(start_pos),
                         debug_position_mapping(end_pos)>>}}

\* The body of `async for message in websocket` (lines 18-103) for one
\* message: text that is no JSON is echoed, a JSON value that is no object
\* has no .get (AttributeError), an object of another type is echoed.
websocket_handler(message) ==
    IF message.kind = "text" THEN {Handled(<<Echo(message)>>, "none")}
    ELSE IF message.kind # "object" THEN {Handled(<<>>, "AttributeError")}
    ELSE IF "type" \in DOMAIN message.data /\ message.data["type"] = "request_route"
    THEN request_route(message.data)
    ELSE {Handled(<<Echo(message)>>, "none")}

\* The handler takes the next message of the connection.
WsReceive ==
    /\ ws_state = "open"
    /\ ws_next <= Len(ws_messages)
    /\ \E out \in websocket_handler(ws_messages[ws_next]) :
        /\ ws_replies' = Append(ws_replies, out.sent)
        /\ ws_state' = IF out.exc = "none" THEN "open" ELSE out.exc
    /\ ws_next' = ws_next + 1
    /\ UNCHANGED <<ws_messages, nbVars, graphVars, costVars, planVars, saVars, pc>>

\* The client has sent everything and closes: the loop ends.
WsClose ==
    /\ ws_state = "open"
    /\ ws_next > Len(ws_messages)
    /\ ws_state' = "closed"
    /\ UNCHANGED <<ws_messages, ws_next, ws_replies, nbVars, graphVars, costVars,
                   planVars, saVars, pc>>

\* The positions clients ask about: one nearest the first node of the line,
\* one between the second and the third.
WsPositions == {<<1, 0, 0>>, <<LatStep + 2, 0, 0>>}

WsDrones == {"uav1", "uav2"}

WsSpeeds == {10}

\* A request_route object holding the optional keys `keys`.
RequestData(drone_id, keys, start_pos, end_pos, max_speed) ==
    [k \in {"type", "drone_id"} \cup keys |->
        CASE k = "type" -> "request_route"
          [] k = "drone_id" -> drone_id
          [] k = "start_position" -> start_pos
          [] k = "end_position" -> end_pos
          [] k = "max_speed" -> max_speed]

\* The frames a client may send: text that is no JSON, a JSON array, an
\* object of another type, and route requests with any of their keys left out.
WsFrames ==
    {[kind |-> "text", data |-> <<>>],
     [kind |-> "array", data |-> <<>>],
     [kind |-> "object", data |-> [type |-> "ping"]]}
    \cup {[kind |-> "object", data |-> RequestData(d, keys, sp, ep, ms)] :
            d \in WsDrones,
            keys \in SUBSET {"start_position", "end_position", "max_speed"},
            sp \in WsPositions, ep \in WsPositions, ms \in WsSpeeds}

InitWs ==
    /\ n_lat = WsGrid[1] /\ n_lon = WsGrid[2] /\ n_alt = WsGrid[3]
    /\ available \in Availabilities(NodesOf(n_lat, n_lon, n_alt), WsMaxUnavailable)
    /\ G = BuiltGraph(available)
    /\ built = NumNodes
    /\ cost_in = <<>>
    /\ cost_out = NotCalled
    /\ PlanIdle
    /\ SAIdle
    /\ NbIdle
    /\ ws_messages \in UNION {[1 .. n -> WsFrames] : n \in 0 .. WsMaxMessages}
    /\ ws_next = 1
    /\ ws_replies = <<>>
    /\ ws_state = "open"
    /\ pc = "ws"

NextWs == WsReceive \/ WsClose

SpecWs == InitWs /\ [][NextWs]_vars

-----------------------------------------------------------------------------
(* The builder: create_graph's edge loop, one (i, j, k) per step *)

InitBuilder ==
    /\ n_lat \in 2 .. BuilderMaxLat
    /\ n_lon = 2
    /\ n_alt = 2
    /\ available \in Availabilities(NodesOf(n_lat, n_lon, n_alt), BuilderMaxUnavailable)
    /\ G = EmptyGraph
    /\ built = 0
    /\ pc = "build"
    /\ cost_in = <<>>
    /\ cost_out = NotCalled
    /\ PlanIdle
    /\ SAIdle
    /\ NbIdle
    /\ WsIdle

BuildNode ==
    /\ pc = "build"
    /\ built < NumNodes
    /\ G' = AddEdges(G, EdgesFrom(available, NodeAt(built)))
    /\ built' = built + 1
    /\ UNCHANGED <<n_lat, n_lon, n_alt, available, pc>>
    /\ UNCHANGED <<wsVars, nbVars, costVars, planVars, saVars>>

NextBuilder == BuildNode

SpecBuilder == InitBuilder /\ [][NextBuilder]_vars

-----------------------------------------------------------------------------
(* Claims about the builder *)

Neighbours26(u, v) ==
    /\ u # v
    /\ \A a \in 1 .. 3 : u[a] - v[a] \in {-1, 0, 1}

\* C5: every edge the builder creates joins two distinct nodes whose indices
\* differ by at most 1 on every axis, and both endpoints are available; no
\* edge touches an unavailable node.  (Grids with at least 2 counts per axis.)
C5_EdgesJoinAvailableNeighbours ==
    (pc = "build" /\ n_lat >= 2 /\ n_lon >= 2 /\ n_alt >= 2) =>
        \A e \in DOMAIN G :
            /\ e[1] \in Nodes /\ e[2] \in Nodes
            /\ Neighbours26(e[1], e[2])
            /\ available[e[1]] /\ available[e[2]]

\* The loop has finished on a grid with a pair of available nodes that are not
\* 26-neighbours and an available node next to an unavailable one.
C5_Witness ==
    /\ pc = "build" /\ built = NumNodes
    /\ n_lat >= 3 /\ n_lon >= 2 /\ n_alt >= 2
    /\ DOMAIN G # {}
    /\ \E u, v \in Nodes : available[u] /\ available[v] /\ u # v /\ ~Neighbours26(u, v)
    /\ \E u, v \in Nodes : available[u] /\ ~available[v] /\ Neighbours26(u, v)

\* C6: once the builder has finished, whenever u->v is an edge so is v->u,
\* and both carry the same weight.
C6_EdgesSymmetric ==
    (pc = "build" /\ built = NumNodes) =>
        \A e \in DOMAIN G :
            /\ <<e[2], e[1]>> \in DOMAIN G
            /\ G[<<e[2], e[1]>>] = G[e]

\* A finished graph with edges along every axis, some nodes unavailable.
C6_Witness ==
    /\ pc = "build" /\ built = NumNodes
    /\ \E e \in DOMAIN G : e[1][1] # e[2][1] /\ e[1][3] # e[2][3]
    /\ \E u \in Nodes : ~available[u]

-----------------------------------------------------------------------------
(* Claims about the parent map of rrt_path_planning *)

\* The tree is a parent map rooted at `start`: its keys are distinct, its
\* first key is start with parent None, and every later key's parent is an
\* earlier key with an edge from it.
RootedAt(t, start) ==
    /\ t[1] = [node |-> start, parent |-> None]
    /\ \A n, m \in 1 .. Len(t) : t[n].node = t[m].node => n = m
    /\ \A n \in 2 .. Len(t) :
        /\ \E m \in 1 .. n - 1 : t[m].node = t[n].parent
        /\ has_edge(t[n].parent, t[n].node)

NoRepeatedNode(path) ==
    \A i, j \in 1 .. Len(path) : path[i] = path[j] => i = j

\* C20: in rrt_path_planning every iteration leaves the parent of each node
\* already in the tree as it was; the tree stays rooted at start with parent
\* None, each other node's parent being a tree node with an edge to it, so
\* that parent links form no cycle; and a path it returns comes from a walk
\* that ended and holds no node twice.
C20_ParentMapOnlyGrows ==
    /\ [][pc = "rrt" =>
            /\ Len(tree') >= Len(tree)
            /\ \A n \in 1 .. Len(tree) : tree'[n] = tree[n]]_vars
    /\ [](tree # <<>> =>
            /\ RootedAt(tree, uav_routes[1].origin)
            /\ WalkParents(tree, tree[Len(tree)].node, <<>>) # NeverReturns)
    /\ []((gen_via # <<>> /\ gen_via[1] = "rrt") =>
            /\ rrt_ret # NeverReturns
            /\ NoRepeatedNode(rrt_ret))

\* rrt_path_planning has returned a path of three nodes or more from a tree
\* that also grew a branch the path does not use.
C20_Witness ==
    /\ gen_via # <<>> /\ gen_via[1] = "rrt"
    /\ Len(rrt_ret) >= 3
    /\ Len(tree) > Len(rrt_ret)
    /\ rrt_ret = reconstruct_path(tree, uav_routes[1].origin, uav_routes[1].destination)

-----------------------------------------------------------------------------
(* Claims about path_cost *)

RECURSIVE SumSeq(_)
SumSeq(s) == IF s = <<>> THEN 0 ELSE Head(s) + SumSeq(Tail(s))

\* A non-empty node sequence with a graph edge between each consecutive pair.
IsValidPath(path) ==
    /\ Len(path) >= 1
    /\ \A i \in 1 .. Len(path) - 1 : has_edge(path[i], path[i + 1])

EdgeWeightSum(path) == SumSeq([i \in 1 .. Len(path) - 1 |-> G[<<path[i], path[i + 1]>>]])

SummedEdgeWeights(paths) == SumSeq([n \in 1 .. Len(paths) |-> EdgeWeightSum(paths[n])])

\* The (vehicle a, vehicle b, index t) with a < b at the same node at index t.
CollidingPairs(paths) ==
    UNION {{<<ab[1], ab[2], t>> : t \in
                {t \in 1 .. Len(paths[ab[1]]) :
                    t <= Len(paths[ab[2]]) /\ paths[ab[1]][t] = paths[ab[2]][t]}} :
            ab \in {ab \in (1 .. Len(paths)) \X (1 .. Len(paths)) : ab[1] < ab[2]}}

\* C7: for a solution of valid paths, path_cost is exactly the summed edge
\* weights when no two vehicles collide, and exactly conflict_penalty more
\* than the summed edge weights when exactly one (node, index) pair collides.
C7_CostIsLengthPlusPenalty ==
    (pc = "cost_done" /\ \A n \in 1 .. Len(cost_in) : IsValidPath(cost_in[n])) =>
        /\ Cardinality(CollidingPairs(cost_in)) = 0 =>
                cost_out = Returned(SummedEdgeWeights(cost_in))
        /\ Cardinality(CollidingPairs(cost_in)) = 1 =>
                cost_out = Returned(SummedEdgeWeights(cost_in) + conflict_penalty)

\* Two valid paths, one of them with an edge, colliding in exactly one place.
C7_Witness ==
    /\ pc = "cost_done"
    /\ Len(cost_in) = 2
    /\ \A n \in 1 .. Len(cost_in) : IsValidPath(cost_in[n])
    /\ SummedEdgeWeights(cost_in) > 0
    /\ Cardinality(CollidingPairs(cost_in)) = 1

\* The paths at `node` at 0-based index `index`: a path of n nodes is at its
\* i-th node at index i - 1 and nowhere from index n on.
OccupantsOf(paths, node, index) ==
    {n \in 1 .. Len(paths) : index + 1 <= Len(paths[n]) /\ paths[n][index + 1] = node}

\* Every (node, index) key some path of the solution is at.
KeysOf(paths) ==
    UNION {{<<paths[n][i], i - 1>> : i \in 1 .. Len(paths[n])} : n \in 1 .. Len(paths)}

RECURSIVE SumOver(_, _)
SumOver(f, S) ==
    IF S = {} THEN 0
    ELSE LET x == CHOOSE y \in S : TRUE IN f[x] + SumOver(f, S \ {x})

\* The sum over every key of (paths at that key, minus one).
ExcessOccupants(paths) ==
    SumOver([key \in KeysOf(paths) |->
                Cardinality(OccupantsOf(paths, key[1], key[2])) - 1],
            KeysOf(paths))

\* C19: for a solution of valid paths, path_cost returns the summed edge
\* weights plus conflict_penalty times the sum, over every (node, index) key,
\* of the number of paths at that key minus one; a path counts at its final
\* node at its own last index only.
C19_ConflictsCountExcessOccupants ==
    (pc = "cost_done" /\ \A n \in 1 .. Len(cost_in) : IsValidPath(cost_in[n])) =>
        cost_out = Returned(SummedEdgeWeights(cost_in)
                            + ExcessOccupants(cost_in) * conflict_penalty)

\* Three vehicles at one node at index 0, counted as two conflicts.
C19_Witness ==
    /\ pc = "cost_done"
    /\ Len(cost_in) = 3
    /\ \A n \in 1 .. Len(cost_in) : IsValidPath(cost_in[n])
    /\ \E node \in Nodes : Cardinality(OccupantsOf(cost_in, node, 0)) = 3
    /\ cost_out = Returned(2 * conflict_penalty)

HasMissingEdge(paths) ==
    \E n \in 1 .. Len(paths) : \E i \in 1 .. Len(paths[n]) - 1 :
        ~has_edge(paths[n][i], paths[n][i + 1])

\* C8 as claimed: for every list of paths, empty paths included, path_cost
\* returns a value and never raises, and returns the infinite sentinel when
\* any consecutive pair lacks an edge.
C8_NeverRaises ==
    pc = "cost_done" =>
        /\ cost_out.exc = "none"
        /\ HasMissingEdge(cost_in) => cost_out = Returned(INF)

\* C8 amended: for every list of non-empty paths (whatever their nodes and
\* edges), path_cost returns a value and never raises, and returns the
\* infinite sentinel when any consecutive pair lacks an edge.
C8_NeverRaisesOnNonEmptyPaths ==
    (pc = "cost_done" /\ \A n \in 1 .. Len(cost_in) : Len(cost_in[n]) >= 1) =>
        /\ cost_out.exc = "none"
        /\ HasMissingEdge(cost_in) => cost_out = Returned(INF)

\* Evaluated: a solution whose second path has a pair with no edge and whose
\* first path is a lone tuple that is no node of the graph.
C8_Witness ==
    /\ pc = "cost_done"
    /\ Len(cost_in) = 2
    /\ Len(cost_in[1]) = 1 /\ cost_in[1][1] \notin Nodes
    /\ Len(cost_in[2]) = 2 /\ ~has_edge(cost_in[2][1], cost_in[2][2])
    /\ cost_out = Returned(INF)

-----------------------------------------------------------------------------
(* Claims about the single-agent planner *)

\* The nodes a directed path of G leads to from the nodes of S.
RECURSIVE ReachableFrom(_)
ReachableFrom(S) ==
    LET next == S \cup {e[2] : e \in {e \in DOMAIN G : e[1] \in S}}
    IN  IF next = S THEN S ELSE ReachableFrom(next)

\* The path joins the route's origin to its destination along edges of G.
JoinsRoute(path, route) ==
    /\ Len(path) >= 1
    /\ path[1] = route.origin
    /\ path[Len(path)] = route.destination
    /\ \A i \in 1 .. Len(path) - 1 : has_edge(path[i], path[i + 1])

\* C2: every path the planner returns (by rrt_path_planning, or else by the
\* shortest-path fallback) starts at the requested origin, ends at the
\* requested destination, and has a directed edge of the graph between every
\* consecutive pair of nodes.
C2_PlannedPathJoinsEndpoints ==
    \A n \in 1 .. Len(gen_paths) : JoinsRoute(gen_paths[n], uav_routes[n])

\* rrt_path_planning returned a path of at least four nodes rebuilt from the
\* parent links of its tree.
C2_Witness ==
    /\ pc = "gen_ret"
    /\ gen_via = <<"rrt">>
    /\ Len(gen_paths[1]) >= 4
    /\ rrt_ret = gen_paths[1]

\* Both ends available, and no directed path from the origin to the destination.
DisjointIslands(route) ==
    /\ route.origin \in Nodes /\ route.destination \in Nodes
    /\ available[route.origin] /\ available[route.destination]
    /\ route.destination \notin ReachableFrom({route.origin})

\* C3: for a request between two available nodes in disjoint availability
\* islands, rrt_path_planning never adds the destination to its tree, uses up
\* max_iterations and returns None, the fallback finds no path either, and
\* no path is produced for the request.
C3_NoPathAcrossIslands ==
    (Len(uav_routes) = 1 /\ DisjointIslands(uav_routes[1])) =>
        /\ uav_routes[1].destination \notin TreeNodes(tree)
        /\ gen_paths = <<>>
        /\ pc \in {"gen", "rrt", "gen_ret"}
        /\ pc = "gen" => route_idx = 1
        /\ pc = "gen_ret" => rrt_ret = None /\ iteration = max_iterations

\* The search grew its tree, ran out of iterations, and the plan ended with
\* no path.
C3_Witness ==
    /\ Len(uav_routes) = 1 /\ DisjointIslands(uav_routes[1])
    /\ pc = "gen_ret"
    /\ Len(tree) >= 2
    /\ iteration = max_iterations
    /\ gen_paths = <<>>

\* C4: planning from a node n of the graph to the same node n returns
\* exactly the one-node path [n].
C4_SameNodePlan ==
    (Len(uav_routes) = 1 /\ uav_routes[1].origin = uav_routes[1].destination) =>
        /\ pc = "gen_ret" => gen_paths = <<<<uav_routes[1].origin>>>>
        /\ pc # "gen_ret" => (pc = "gen" /\ gen_paths \in {<<>>, <<<<uav_routes[1].origin>>>>})

\* The plan from an available node with an available neighbour to itself has
\* returned.
C4_Witness ==
    /\ Len(uav_routes) = 1 /\ uav_routes[1].origin = uav_routes[1].destination
    /\ pc = "gen_ret"
    /\ gen_via = <<"rrt">>
    /\ \E e \in DOMAIN G : e[1] = uav_routes[1].origin
    /\ gen_paths = <<<<uav_routes[1].origin>>>>

-----------------------------------------------------------------------------
(* Claims about the optimizer *)

\* The requests generate_safe_uav_routes and validate_uav_routes let through:
\* from available nodes of the left edge to available nodes of the right
\* edge, no origin and no destination used twice, each with a path.
SafeRoutes(routes) ==
    /\ \A i \in 1 .. Len(routes) :
        /\ routes[i].origin[1] = 0 /\ available[routes[i].origin]
        /\ routes[i].destination[1] = n_lat - 1 /\ available[routes[i].destination]
        /\ routes[i].destination \in ReachableFrom({routes[i].origin})
    /\ \A i, j \in 1 .. Len(routes) :
        i # j => /\ routes[i].origin # routes[j].origin
                 /\ routes[i].destination # routes[j].destination

\* C1: the solution simulated_annealing returns is collision-free: no two
\* distinct vehicles are at the same node at an index valid in both paths.
\* Stated for the requests of SafeRoutes, whose vehicles neither start nor
\* end at a common node.
C1_ReturnedSolutionCollisionFree ==
    (pc = "sa_done" /\ sa_ret # None /\ SafeRoutes(uav_routes)) =>
        CollidingPairs(sa_ret) = {}

\* C9: while the search loop runs best_cost never rises from one iteration to
\* the next, and the best_cost simulated_annealing ends with is at most the
\* cost of the initial solution.
C9_BestCostNeverRises ==
    /\ [][pc = "search" => ~CostLess(best_cost, best_cost')]_vars
    /\ []((pc = "sa_done" /\ sa_ret # None) => ~CostLess(initial_cost, best_cost))

\* The search has taken a move that costs more than the best solution so far,
\* and kept the best one.
C9_Witness ==
    /\ pc = "search"
    /\ temperature # schedule.initial_temp
    /\ CostLess(best_cost, current_cost)
    /\ current_paths # best_paths

\* No path of G leads from the route's origin to its destination: neither
\* rrt_path_planning nor nx.shortest_path yields a path for it.
Stranded(route) == route.destination \notin ReachableFrom({route.origin})

\* C10: when some route request has no path, no search iteration ever runs,
\* no partial solution becomes the current or the best solution, and
\* simulated_annealing returns None, whatever the other routes are.
C10_StrandedRouteFailsWholeRun ==
    (\E i \in 1 .. Len(uav_routes) : Stranded(uav_routes[i])) =>
        /\ pc \notin {"search", "sa_raised"}
        /\ current_paths = <<>>
        /\ best_paths = <<>>
        /\ temperature = <<0, 1>>
        /\ pc = "sa_done" => sa_ret = None

\* Two requests, the first with a path and the second without: the run has
\* ended.
C10_Witness ==
    /\ pc = "sa_done"
    /\ Len(uav_routes) = 2
    /\ ~Stranded(uav_routes[1])
    /\ Stranded(uav_routes[2])
    /\ sa_ret = None

\* initial_temp > 0, min_temp > 0 and 0 < cooling_rate < 1
CoolingSchedule ==
    /\ schedule.initial_temp[1] > 0
    /\ schedule.min_temp[1] > 0
    /\ 0 < schedule.cooling_rate[1]
    /\ schedule.cooling_rate[1] < schedule.cooling_rate[2]

\* cooling_rate >= 1 and initial_temp > min_temp
RunawaySchedule ==
    /\ schedule.cooling_rate[1] >= schedule.cooling_rate[2]
    /\ RatLess(schedule.min_temp, schedule.initial_temp)

\* b = a * rate, or the product has overflowed to float('inf')
IsProduct(a, rate, b) ==
    \/ b[2] = 0
    \/ b[2] # 0 /\ b[1] * a[2] * rate[2] = a[1] * rate[1] * b[2]

\* C11: every iteration of the search loop multiplies the temperature by
\* cooling_rate; the loop goes on while the temperature is above min_temp
\* and ends at the first test that finds it at or below min_temp, returning
\* the best solution recorded; under a schedule with initial_temp > 0,
\* min_temp > 0 and 0 < cooling_rate < 1 a search that has started always
\* ends that way; with cooling_rate >= 1 and initial_temp > min_temp it never
\* does.
C11_CoolingConverges ==
    /\ [][(pc = "search" /\ pc' = "search") =>
            IsProduct(temperature, schedule.cooling_rate, temperature')]_vars
    /\ [][pc = "search" =>
            (pc' = "sa_done") = ~RatLess(schedule.min_temp, temperature)]_vars
    /\ [][(pc = "search" /\ pc' = "sa_done") => sa_ret' = best_paths]_vars
    /\ (CoolingSchedule /\ pc = "search") ~>
            (pc = "sa_done" /\ sa_ret = best_paths /\ sa_ret # None)
    /\ [](RunawaySchedule => ~(pc = "sa_done" /\ sa_ret # None))

\* A cooling schedule has run its iterations down to min_temp and the best
\* solution has been returned.
C11_Witness ==
    /\ CoolingSchedule
    /\ pc = "sa_done"
    /\ sa_ret = best_paths
    /\ sa_ret # None
    /\ temperature # schedule.initial_temp
    /\ ~RatLess(schedule.min_temp, temperature)

\* Every shortest path of either request passes the centre node at index 1.
CrossAtCentre ==
    /\ Len(uav_routes) = 2
    /\ \A n \in 1 .. 2 :
        \A sp \in ShortestPaths(uav_routes[n].origin, uav_routes[n].destination) :
            Len(sp) = 3 /\ sp[2] = <<1, 1, 0>>

\* C12: on the fully available 3 x 3 x 1 grid with two vehicles whose
\* shortest paths cross at the centre, the cost of the initial solution is
\* the summed edge weights plus exactly one conflict penalty, and the cost of
\* the solution the optimizer returns holds no conflict penalty (the code
\* has no way to report that a conflict could not be eliminated).
C12_CrossingConflictResolved ==
    CrossAtCentre =>
        /\ (pc = "search" /\ temperature = schedule.initial_temp) =>
                initial_cost = SummedEdgeWeights(current_paths) + conflict_penalty
        /\ (pc = "sa_done" /\ sa_ret # None) =>
                /\ best_cost = SummedEdgeWeights(sa_ret)
                /\ CollidingPairs(sa_ret) = {}

\* One path per route request, in the order of the requests, each joining
\* its request's origin to its destination along edges of G.
OnePathPerRoute(solution) ==
    /\ Len(solution) = Len(uav_routes)
    /\ \A i \in 1 .. Len(solution) : JoinsRoute(solution[i], uav_routes[i])

\* C13: the initial solution, every current solution, every neighbor that
\* get_neighbor may generate from it in an iteration of the loop, the best
\* solution and the solution returned all hold one path per route request in
\* the order of the requests, path i leading from request i's origin to its
\* destination over edges of the graph.
C13_OnePathPerRouteThroughout ==
    /\ pc = "search" =>
        /\ OnePathPerRoute(current_paths)
        /\ OnePathPerRoute(best_paths)
    /\ (pc = "search" /\ RatLess(schedule.min_temp, temperature)) =>
        \A new_paths \in get_neighbor(current_paths) : OnePathPerRoute(new_paths)
    /\ (pc = "sa_done" /\ sa_ret # None) => OnePathPerRoute(sa_ret)

\* Two vehicles, the search has moved away from the best solution, and a
\* further neighbor differs from the current solution.
C13_Witness ==
    /\ pc = "search"
    /\ Len(uav_routes) = 2
    /\ current_paths # best_paths
    /\ \E new_paths \in get_neighbor(current_paths) : new_paths # current_paths

-----------------------------------------------------------------------------
(* Claims about get_neighbor *)

\* C14: no statement of get_neighbor, on any branch (path too short, segment
\* spliced, retry, no path), changes the list it was given: the caller's
\* solution, which the optimizer holds as its current (and possibly best)
\* solution, stays element for element what it was.
C14_InputNeverMutated ==
    [][(pc = "nb_call" \/ pc = "nb_copied" \/ pc = "nb_drawn") =>
            (solutions'[current_solution] = solutions[current_solution])]_vars

\* After a retry, a splice has made the returned list differ from the
\* caller's.
C14_Witness ==
    /\ pc = "nb_done"
    /\ nb_branch = "spliced"
    /\ retries > 0
    /\ nb_ret # current_solution
    /\ solutions[nb_ret] # solutions[current_solution]

\* A segment was drawn and no path of G leads from its first node to its
\* last.
SegmentHasNoPath ==
    /\ start_idx > 0
    /\ solutions[current_solution][uav_index][end_idx] \notin
            ReachableFrom({solutions[current_solution][uav_index][start_idx]})

\* C15: when no path exists between the ends of the segment drawn,
\* get_neighbor raises nothing and returns a solution equal to the one it was
\* given.
C15_NoPathReturnsOriginal ==
    (pc \in {"nb_done", "nb_raised"} /\ SegmentHasNoPath) =>
        /\ pc = "nb_done"
        /\ solutions[nb_ret] = solutions[current_solution]

\* get_neighbor has returned from a segment that ends at an isolated node,
\* in a solution of two paths.
C15_Witness ==
    /\ pc = "nb_done"
    /\ SegmentHasNoPath
    /\ nb_branch = "nopath"
    /\ Len(solutions[current_solution]) = 2

\* C16: when the segment drawn is two neighbouring positions of the path and
\* its replacement is just those two ends again, get_neighbor does not return
\* the unchanged solution: it draws another segment.  (The code has no retry
\* bound to state: line 398 calls get_neighbor again without counting.)
C16_DegenerateSegmentRetried ==
    (pc = "nb_done" /\ nb_branch = "spliced" /\ end_idx = start_idx + 1) =>
        solutions[nb_ret] # solutions[current_solution]

\* C17: when the path of the vehicle drawn has fewer than 3 nodes, the
\* solution returned equals the solution given, path for path.
C17_ShortPathUnchanged ==
    (pc = "nb_done" /\ Len(solutions[current_solution][uav_index]) < 3) =>
        solutions[nb_ret] = solutions[current_solution]

\* The vehicle drawn has a path of two nodes with no edge between them, next
\* to a longer path that could have been rerouted.
C17_Witness ==
    /\ pc = "nb_done"
    /\ nb_branch = "short"
    /\ Len(solutions[current_solution]) = 2
    /\ Len(solutions[current_solution][uav_index]) = 2
    /\ ~has_edge(solutions[current_solution][uav_index][1],
                 solutions[current_solution][uav_index][2])
    /\ solutions[current_solution][uav_index][1] # solutions[current_solution][uav_index][2]

-----------------------------------------------------------------------------
(* Claims about the request/response service *)

IsRouteRequest(message) ==
    /\ message.kind = "object"
    /\ "type" \in DOMAIN message.data
    /\ message.data["type"] = "request_route"

\* The frame is a success for the request: a route of one waypoint per node
\* of a path between the nodes the two positions map to, in path order.
IsRouteFor(frame, data) ==
    /\ frame.status = "success"
    /\ \E path_nodes \in ShortestPaths(find_closest_node(data["start_position"]),
                                       find_closest_node(data["end_position"])) :
        /\ Len(frame.route) = Len(path_nodes)
        /\ \A i \in 1 .. Len(path_nodes) :
            /\ frame.route[i].x = pos(path_nodes[i])[1]
            /\ frame.route[i].description = i

\* C18: on the graph the service builds (every node available), every
\* request_route message handled was answered with exactly one route_response
\* for its drone_id, a success with one waypoint per path node in path order
\* or a failure with status no_path or invalid_position, and no message has
\* ended the handler.
C18_EveryRequestAnswered ==
    (\A u \in Nodes : available[u]) =>
        /\ ws_state \in {"open", "closed"}
        /\ \A n \in 1 .. Len(ws_replies) :
            IsRouteRequest(ws_messages[n]) =>
                /\ Len(ws_replies[n]) = 1
                /\ ws_replies[n][1].type = "route_response"
                /\ ws_replies[n][1].drone_id = ws_messages[n].data["drone_id"]
                /\ \/ ws_replies[n][1].status \in {"no_path", "invalid_position"}
                   \/ IsRouteFor(ws_replies[n][1], ws_messages[n].data)

-----------------------------------------------------------------------------
(* Claims about the length of the solutions of the search *)

\* Path for path, `new_paths` weighs no more than `paths`.
NoPathHeavier(new_paths, paths) ==
    /\ Len(new_paths) = Len(paths)
    /\ \A i \in 1 .. Len(paths) : EdgeWeightSum(new_paths[i]) <= EdgeWeightSum(paths[i])

\* C21: every neighbor get_neighbor may generate from the current solution
\* in an iteration of the loop has, path for path, a sum of edge weights no
\* greater than the current solution's; so no iteration increases the total
\* path length of the current solution, and an iteration that raises the
\* current cost raises the conflict count.
C21_RerouteNeverLengthens ==
    /\ []((pc = "search" /\ RatLess(schedule.min_temp, temperature)) =>
            \A new_paths \in get_neighbor(current_paths) :
                NoPathHeavier(new_paths, current_paths))
    /\ [][(pc = "search" /\ pc' = "search") =>
            /\ SummedEdgeWeights(current_paths') <= SummedEdgeWeights(current_paths)
            /\ CostLess(current_cost, current_cost') =>
                    ExcessOccupants(current_paths') > ExcessOccupants(current_paths)]_vars

\* After at least one iteration, with two vehicles, a neighbor of the current
\* solution has a path strictly lighter than the current one.
C21_Witness ==
    /\ pc = "search"
    /\ RatLess(schedule.min_temp, temperature)
    /\ temperature # schedule.initial_temp
    /\ Len(uav_routes) = 2
    /\ \E new_paths \in get_neighbor(current_paths) :
        \E i \in 1 .. Len(current_paths) :
            EdgeWeightSum(new_paths[i]) < EdgeWeightSum(current_paths[i])

-----------------------------------------------------------------------------
(* Claims about the costs simulated_annealing keeps *)

\* The lesser of two costs.
LeastCost(a, b) == IF CostLess(a, b) THEN a ELSE b

\* C22: at the start of the loop and at the end of every iteration
\* current_cost is path_cost(current_paths), best_cost is
\* path_cost(best_paths) and best_cost <= current_cost; best_cost starts as
\* the initial solution's cost and each iteration makes it the lesser of
\* what it was and the new current cost, so that it is the least cost any
\* current solution had; the solution returned is best_paths, of that cost.
C22_CostsMatchSolutions ==
    /\ [](pc = "search" =>
            /\ path_cost(current_paths) = Returned(current_cost)
            /\ path_cost(best_paths) = Returned(best_cost)
            /\ ~CostLess(current_cost, best_cost))
    /\ [][(pc = "gen_ret" /\ pc' = "search") =>
            (best_cost' = current_cost' /\ current_cost' = initial_cost')]_vars
    /\ [][(pc = "search" /\ pc' = "search") =>
            best_cost' = LeastCost(best_cost, current_cost')]_vars
    /\ []((pc = "sa_done" /\ sa_ret # None) =>
            /\ sa_ret = best_paths
            /\ path_cost(sa_ret) = Returned(best_cost))

\* Returned: the best cost is below the initial one and below the cost of the
\* solution the search ended on.
C22_Witness ==
    /\ pc = "sa_done"
    /\ sa_ret # None
    /\ CostLess(best_cost, initial_cost)
    /\ CostLess(best_cost, current_cost)

=============================================================================